---- MODULE Spec2Model ----
(***************************************************************************)
(* A model of the scalar reverse-mode autodiff engine (src/value.py) and   *)
(* of the Neuron / Layer / MLP composition built on it (src/nn.py).        *)
(*                                                                         *)
(* Numbers.  Python numbers are modelled as exact rationals <<n, d>> in    *)
(* lowest terms with d > 0.  Every number of the model is a small integer  *)
(* or dyadic fraction (d a power of two), on which Python's int/float      *)
(* sums and products are exact and agree with the rational arithmetic      *)
(* here.  An operation whose double result is rounded is outside the model *)
(* ("OutOfModel") and no action makes it: a negative power of a base that  *)
(* is not a power of two (see PowExact), and math.exp, the one library     *)
(* function the code calls, except where its result is exact (see          *)
(* MathExp).  Exponents of ** are integers.                                *)
(*                                                                         *)
(* Objects.  Every Value object ever constructed is a record of the        *)
(* sequence heap; its index is its identity (Value defines no __eq__ or    *)
(* __hash__, so sets of Values are keyed by identity).                     *)
(***************************************************************************)
EXTENDS Integers, Sequences, FiniteSets, TLC

VARIABLES heap, last, order, nback, net, ncall, iter

vars == <<heap, last, order, nback, net, ncall, iter>>

(***************************************************************************)
(* Bounds of the model.                                                    *)
(***************************************************************************)
MaxNodes == 4
MaxBackward == 2
MaxIn == 1
MaxWidth == 2
MaxLayers == 2
MaxCalls == 2
MaxPartCalls == 1
MaxDraws == 7
MaxGraphNodes == 3

(***************************************************************************)
(* Exact rational arithmetic.                                              *)
(***************************************************************************)
Abs(n) == IF n < 0 THEN -n ELSE n

RECURSIVE Gcd(_, _)
Gcd(a, b) == IF b = 0 THEN a ELSE Gcd(b, a % b)

Rat(n, d) ==
  IF d = 1 THEN <<n, 1>>
  ELSE LET g == Gcd(Abs(n), Abs(d))
           s == IF d < 0 THEN -1 ELSE 1
       IN  <<(s * n) \div g, (s * d) \div g>>

Int2Rat(n) == <<n, 1>>
Zero == Int2Rat(0)
One == Int2Rat(1)

(* Sums and products cancel common factors before they multiply, so that   *)
(* no intermediate result is larger than the operands and the result.      *)
RAdd(x, y) ==
  IF x[2] = y[2] THEN Rat(x[1] + y[1], x[2])
  ELSE LET g == Gcd(x[2], y[2])
       IN  Rat(x[1] * (y[2] \div g) + y[1] * (x[2] \div g), (x[2] \div g) * y[2])

RMul(x, y) ==
  IF x[2] = 1 /\ y[2] = 1 THEN <<x[1] * y[1], 1>>
  ELSE IF x[1] = 0 \/ y[1] = 0 THEN <<0, 1>>
  ELSE LET g1 == Gcd(Abs(x[1]), y[2])
           g2 == Gcd(Abs(y[1]), x[2])
       IN  <<(x[1] \div g1) * (y[1] \div g2), (x[2] \div g2) * (y[2] \div g1)>>
RNeg(x) == <<-x[1], x[2]>>
RSub(x, y) == RAdd(x, RNeg(y))

(* n is a power of two *)
RECURSIVE IsPow2(_)
IsPow2(n) == n >= 1 /\ (n = 1 \/ (n % 2 = 0 /\ IsPow2(n \div 2)))

(* 1 / x, for x a dyadic fraction whose inverse is one too: x = +-2 ** j.  *)
(* The inverse of any other x is not a double and is not evaluated.        *)
RInv(x) ==
  CASE IsPow2(Abs(x[1])) -> IF x[1] < 0 THEN <<-x[2], -x[1]>> ELSE <<x[2], x[1]>>

RDiv(x, y) == RMul(x, RInv(y))
RLt(x, y) == x[1] * y[2] < y[1] * x[2]
RLe(x, y) == x[1] * y[2] <= y[1] * x[2]

(***************************************************************************)
(* x ** k for an integer k, as Python evaluates it: 0 ** 0 is 1, and a     *)
(* zero base with a negative exponent raises ZeroDivisionError (PowRaises) *)
(* instead of yielding an infinity.                                        *)
(***************************************************************************)
RECURSIVE RPowNat(_, _)
RPowNat(x, k) == IF k = 0 THEN One ELSE RMul(x, RPowNat(x, k - 1))

PowRaises(x, k) == x = Zero /\ k < 0

(* x ** k is not rounded: k >= 0, or x = +-2 ** j, or x = 0 (PowRaises) *)
PowExact(x, k) == k >= 0 \/ x = Zero \/ IsPow2(Abs(x[1]))

RPow(x, k) ==
  CASE k >= 0 -> RPowNat(x, k)
    [] k < 0 /\ PowExact(x, k) /\ ~ PowRaises(x, k) -> RPowNat(RInv(x), -k)

(***************************************************************************)
(* math.exp, the C library's exponential, is not code of the repository,   *)
(* and its values are not rationals.  The model evaluates it only where a  *)
(* double holds the result exactly: exp(0) = 1.0; below -ExpMinArg the     *)
(* result underflows to 0.0 silently; above ExpMaxArg + ExpMaxFrac / 10^6  *)
(* (709.782712..., the logarithm of the largest double) it raises          *)
(* OverflowError ("math range error").  A call with any other argument is  *)
(* outside the model ("OutOfModel") and no action makes it.                *)
(***************************************************************************)
ExpMaxArg == 709
ExpMaxFrac == 782712
ExpFracUnit == 1000000
ExpMinArg == 746

RFloor(x) == x[1] \div x[2]

(* the fractional part of x, in units of 1 / ExpFracUnit, times x[2] *)
RFracScaled(x) == (x[1] - RFloor(x) * x[2]) * ExpFracUnit

ExpRaises(y) ==
  \/ RFloor(y) > ExpMaxArg
  \/ RFloor(y) = ExpMaxArg /\ RFracScaled(y) > ExpMaxFrac * y[2]

(* The limit lies between two consecutive millionths; an argument between  *)
(* them is not decided here.                                               *)
ExpDecided(y) ==
  ~ (/\ RFloor(y) = ExpMaxArg
     /\ RFracScaled(y) > ExpMaxFrac * y[2]
     /\ RFracScaled(y) < (ExpMaxFrac + 1) * y[2])

ExpArgOk(y) ==
  /\ ExpDecided(y)
  /\ \/ y = Zero
     \/ ExpRaises(y)
     \/ RLt(y, Int2Rat(-ExpMinArg))

MathExp(y) ==
  CASE y = Zero -> One
    [] RLt(y, Int2Rat(-ExpMinArg)) -> Zero

(***************************************************************************)
(* Operands.  A Python operand is either a Value object (by identity) or a *)
(* plain number.                                                           *)
(***************************************************************************)
Node(i) == [isValue |-> TRUE, id |-> i, num |-> Zero]
Raw(q) == [isValue |-> FALSE, id |-> 0, num |-> q]

(* The outcome of an operation: the heap after it, the object it returns   *)
(* (0: none) and the exception it raises ("": none).                       *)
Res(h, out, err) == [h |-> h, out |-> out, err |-> err]

(* Value.__init__: data, grad = 0.0, _prev = set(_children), _op and a     *)
(* no-op _backward.  The closure an operation installs afterwards is       *)
(* determined by _op, the operand tuple it closes over (args) and, for **, *)
(* the exponent (k); they are stored here with the object.                 *)
ValueInit(h, data, children, op, k) ==
  Append(h, [data |-> data, grad |-> Zero,
             prev |-> {children[i] : i \in DOMAIN children},
             op |-> op, args |-> children, k |-> k])

(* other if isinstance(other, Value) else Value(other) *)
Coerce(h, x) ==
  IF x.isValue THEN Res(h, x.id, "")
  ELSE Res(ValueInit(h, x.num, <<>>, "", 0), Len(h) + 1, "")

ValueAdd(h, self, x) ==
  LET Out(other) ==
        Res(ValueInit(other.h, RAdd(other.h[self].data, other.h[other.out].data),
                      <<self, other.out>>, "+", 0),
            Len(other.h) + 1, "")
  IN  Out(Coerce(h, x))

ValueMul(h, self, x) ==
  LET Out(other) ==
        Res(ValueInit(other.h, RMul(other.h[self].data, other.h[other.out].data),
                      <<self, other.out>>, "*", 0),
            Len(other.h) + 1, "")
  IN  Out(Coerce(h, x))

(* __pow__: the assert rejects an exponent that is not an int or a float   *)
(* (a Value); self.data ** other is evaluated before the node is built.    *)
ValuePow(h, self, x) ==
  IF x.isValue THEN Res(h, 0, "AssertionError")
  ELSE IF PowRaises(h[self].data, x.num[1]) THEN Res(h, 0, "ZeroDivisionError")
  ELSE IF ~ PowExact(h[self].data, x.num[1]) THEN Res(h, 0, "OutOfModel")
  ELSE Res(ValueInit(h, RPow(h[self].data, x.num[1]), <<self>>, "**", x.num[1]),
           Len(h) + 1, "")

ValueExp(h, self) ==
  IF ~ ExpArgOk(h[self].data) THEN Res(h, 0, "OutOfModel")
  ELSE IF ExpRaises(h[self].data) THEN Res(h, 0, "OverflowError")
  ELSE Res(ValueInit(h, MathExp(h[self].data), <<self>>, "exp", 0),
           Len(h) + 1, "")

(* t = (math.exp(2*x) - 1)/(math.exp(2*x) + 1).  When 2*x is at least      *)
(* TanhSatArg in magnitude, e = math.exp(2*x) is above 2 ** 54 or below    *)
(* 2 ** -54: e - 1 and e + 1 round to the same double (e, or -1.0 and 1.0) *)
(* and the quotient is exactly 1.0 or -1.0, whatever the digits of e.      *)
TanhSatArg == 38

TanhSaturates(y) ==
  RLe(Int2Rat(TanhSatArg), y) \/ RLe(y, Int2Rat(-TanhSatArg))

TanhArgOk(x) ==
  LET Ok(y) == ExpDecided(y) /\ (TanhSaturates(y) \/ y = Zero)
  IN  Ok(RMul(Int2Rat(2), x))

TanhOf(x) ==
  LET T(y) ==
        IF TanhSaturates(y) THEN (IF RLt(y, Zero) THEN RNeg(One) ELSE One)
        ELSE RDiv(RSub(MathExp(y), One), RAdd(MathExp(y), One))
  IN  T(RMul(Int2Rat(2), x))

ValueTanh(h, self) ==
  IF ~ TanhArgOk(h[self].data) THEN Res(h, 0, "OutOfModel")
  ELSE IF ExpRaises(RMul(Int2Rat(2), h[self].data)) THEN Res(h, 0, "OverflowError")
  ELSE Res(ValueInit(h, TanhOf(h[self].data), <<self>>, "tanh", 0),
           Len(h) + 1, "")

ValueRelu(h, self) ==
  Res(ValueInit(h, IF RLt(h[self].data, Zero) THEN Zero ELSE h[self].data,
                <<self>>, "ReLU", 0),
      Len(h) + 1, "")

(* __neg__: self * -1 *)
ValueNeg(h, self) == ValueMul(h, self, Raw(Int2Rat(-1)))

(* __abs__: -self if self.data < 0 else self *)
ValueAbs(h, self) ==
  IF RLt(h[self].data, Zero) THEN ValueNeg(h, self) ELSE Res(h, self, "")

(* __sub__: self + (-other).  -other is Value.__neg__ for a Value and the  *)
(* number's own negation for a plain number.                               *)
ValueSub(h, self, x) ==
  IF x.isValue
  THEN LET n == ValueNeg(h, x.id) IN ValueAdd(n.h, self, Node(n.out))
  ELSE ValueAdd(h, self, Raw(RNeg(x.num)))

(* __rsub__(self, other), called for other - self with other a plain       *)
(* number: self + (-other).                                                *)
ValueRSub(h, self, x) == ValueAdd(h, self, Raw(RNeg(x.num)))

(* __truediv__: self * (other**-1).  other**-1 is Value.__pow__ for a      *)
(* Value and the number's own power for a plain number; either raises      *)
(* ZeroDivisionError on zero.                                              *)
ValueTrueDiv(h, self, x) ==
  IF x.isValue
  THEN LET p == ValuePow(h, x.id, Raw(Int2Rat(-1)))
       IN  IF p.err # "" THEN p ELSE ValueMul(p.h, self, Node(p.out))
  ELSE IF PowRaises(x.num, -1) THEN Res(h, 0, "ZeroDivisionError")
  ELSE IF ~ PowExact(x.num, -1) THEN Res(h, 0, "OutOfModel")
  ELSE ValueMul(h, self, Raw(RPow(x.num, -1)))

(* __rtruediv__(self, other), called for other / self with other a plain   *)
(* number: self * (other**-1).                                             *)
ValueRTrueDiv(h, self, x) ==
  IF PowRaises(x.num, -1) THEN Res(h, 0, "ZeroDivisionError")
  ELSE IF ~ PowExact(x.num, -1) THEN Res(h, 0, "OutOfModel")
  ELSE ValueMul(h, self, Raw(RPow(x.num, -1)))

(* Comparisons read .data of the coerced operands; the Value a plain       *)
(* number is coerced to is dropped when the comparison returns.            *)
OperandData(h, x) == IF x.isValue THEN h[x.id].data ELSE x.num

ValueGt(h, self, x) == RLt(OperandData(h, x), h[self].data)
ValueGe(h, self, x) == RLe(OperandData(h, x), h[self].data)
ValueLt(h, self, x) == ~ ValueGe(h, self, x)
ValueLe(h, self, x) == ~ ValueGt(h, self, x)

(***************************************************************************)
(* The _backward closures.  Each reads out.grad and accumulates into the   *)
(* operands it closed over, one statement after the other (so an operand   *)
(* used twice, x + x, is incremented twice).                               *)
(***************************************************************************)
BRes(h, err) == [h |-> h, err |-> err]

(* "=" in place of "+=" in the closures *)
AddGradStore(h, i, v) == [h EXCEPT ![i].grad = v]

AddGrad(h, i, v) == [h EXCEPT ![i].grad = RAdd(@, v)]

BackwardAdd(h, out) ==
  LET self == h[out].args[1]
      other == h[out].args[2]
      h1 == AddGrad(h, self, RMul(One, h[out].grad))
  IN  BRes(AddGrad(h1, other, RMul(One, h1[out].grad)), "")

BackwardMul(h, out) ==
  LET self == h[out].args[1]
      other == h[out].args[2]
      h1 == AddGrad(h, self, RMul(h[other].data, h[out].grad))
  IN  BRes(AddGrad(h1, other, RMul(h1[self].data, h1[out].grad)), "")

(* other * self.data**(other-1): self.data**(other-1) is evaluated first   *)
(* and raises for a base of 0 and other < 1, also when other = 0.  When it *)
(* returns and other = 0 the product is 0 whatever the digits of           *)
(* self.data ** -1 are; a node with other < 0 has a base +-2 ** j          *)
(* (PowExact), whose powers are exact.                                     *)
PowSlope(x, k) ==
  IF PowRaises(x, k - 1) THEN [val |-> Zero, err |-> "ZeroDivisionError"]
  ELSE [val |-> IF k = 0 THEN Zero ELSE RMul(Int2Rat(k), RPow(x, k - 1)),
        err |-> ""]

(* self.grad += (other * self.data**(other-1)) * out.grad *)
BackwardPow(h, out) ==
  LET self == h[out].args[1]
      Accumulate(s) ==
        IF s.err # "" THEN BRes(h, s.err)
        ELSE BRes(AddGrad(h, self, RMul(s.val, h[out].grad)), "")
  IN  Accumulate(PowSlope(h[self].data, h[out].k))

BackwardExp(h, out) ==
  BRes(AddGrad(h, h[out].args[1], RMul(h[out].data, h[out].grad)), "")

(* self.grad += (1 - t**2) * out.grad, t being the number stored as        *)
(* out.data                                                                *)
BackwardTanh(h, out) ==
  LET t == h[out].data
  IN  BRes(AddGrad(h, h[out].args[1],
                   RMul(RSub(One, RPow(t, 2)), h[out].grad)), "")

(* self.grad += (out > 0) * out.grad *)
BackwardRelu(h, out) ==
  LET b == IF ValueGt(h, out, Raw(Zero)) THEN One ELSE Zero
  IN  BRes(AddGrad(h, h[out].args[1], RMul(b, h[out].grad)), "")

(* node._backward(): the closure installed by the operation that built     *)
(* the node, lambda: None for a node built by Value(...) directly.         *)
CallBackward(h, out) ==
  CASE h[out].op = "+" -> BackwardAdd(h, out)
    [] h[out].op = "*" -> BackwardMul(h, out)
    [] h[out].op = "**" -> BackwardPow(h, out)
    [] h[out].op = "exp" -> BackwardExp(h, out)
    [] h[out].op = "tanh" -> BackwardTanh(h, out)
    [] h[out].op = "ReLU" -> BackwardRelu(h, out)
    [] OTHER -> BRes(h, "")

(***************************************************************************)
(* Value.backward.  build_topo iterates node._prev, a Python set of        *)
(* objects hashed by address: its iteration order is not fixed by the      *)
(* program.  flips is the set of nodes whose operand set is iterated in    *)
(* descending rather than ascending order of identity.                     *)
(***************************************************************************)
RECURSIVE SortedSeq(_)
SortedSeq(S) ==
  IF S = {} THEN <<>>
  ELSE LET m == CHOOSE x \in S : \A y \in S : x <= y
       IN  <<m>> \o SortedSeq(S \ {m})

Reverse(s) == [i \in 1..Len(s) |-> s[Len(s) + 1 - i]]

ChildSeq(h, node, flips) ==
  IF node \in flips THEN Reverse(SortedSeq(h[node].prev))
  ELSE SortedSeq(h[node].prev)

RECURSIVE build_topo(_, _, _, _)
RECURSIVE build_topo_children(_, _, _, _, _)
build_topo(h, node, st, flips) ==
  IF node \in st.visited THEN st
  ELSE LET st1 == [st EXCEPT !.visited = @ \cup {node}]
           st2 == build_topo_children(h, ChildSeq(h, node, flips), 1, st1, flips)
       IN  [st2 EXCEPT !.topo = Append(@, node)]

build_topo_children(h, cs, i, st, flips) ==
  IF i > Len(cs) THEN st
  ELSE build_topo_children(h, cs, i + 1, build_topo(h, cs[i], st, flips), flips)

Topo(h, root, flips) ==
  build_topo(h, root, [visited |-> {}, topo |-> <<>>], flips).topo

(* for node in reversed(topo): node._backward() -- an exception ends the   *)
(* loop and leaves the gradients accumulated so far.                       *)
RECURSIVE RunBackward(_, _, _)
RunBackward(h, rs, i) ==
  IF i > Len(rs) THEN [h |-> h, err |-> "", invoked |-> rs]
  ELSE LET Rest(r) ==
             IF r.err # ""
             THEN [h |-> r.h, err |-> r.err, invoked |-> SubSeq(rs, 1, i)]
             ELSE RunBackward(r.h, rs, i + 1)
       IN  Rest(CallBackward(h, rs[i]))

(* backward() resetting the gradients of the whole graph before it seeds *)
SeedGradReset(h, root) ==
  [i \in DOMAIN h |-> [h[i] EXCEPT !.grad = IF i = root THEN One ELSE Zero]]

SeedGrad(h, root) == [h EXCEPT ![root].grad = One]

ValueBackward(h, root, flips) ==
  RunBackward(SeedGrad(h, root), Reverse(Topo(h, root, flips)), 1)

(***************************************************************************)
(* src/nn.py.  A Neuron is [w, b]: the identities of its weight Values, in *)
(* input order, and of its bias Value; a Layer is the sequence of its      *)
(* Neurons and an MLP the sequence of its Layers.                          *)
(*                                                                         *)
(* The argument and the result of a component call is a Python list of     *)
(* operands (List) or one bare Value (Bare).                               *)
(***************************************************************************)
List(items) == [isList |-> TRUE, items |-> items, id |-> 0]
Bare(i) == [isList |-> FALSE, items |-> <<>>, id |-> i]
NRes(h, ret, err) == [h |-> h, ret |-> ret, err |-> err]

Min(a, b) == IF a <= b THEN a ELSE b

(* random.uniform(-1, 1).  Every call returns a number of [-1, 1) that the *)
(* program does not control; rng is the sequence of the numbers the        *)
(* coming calls return, and a constructor consumes it from the front.      *)
(* [Value(random.uniform(-1,1)) for _ in range(nin)] *)
RECURSIVE NewParams(_, _, _)
NewParams(h, n, rng) ==
  IF n = 0 THEN [h |-> h, rng |-> rng]
  ELSE NewParams(ValueInit(h, Head(rng), <<>>, "", 0), n - 1, Tail(rng))

(* Neuron.__init__: the nin weights are drawn first, then the bias. *)
NeuronInit(h, nin, rng) ==
  LET Built(p) ==
        [h |-> p.h, rng |-> p.rng,
         obj |-> [w |-> [i \in 1..nin |-> Len(h) + i], b |-> Len(h) + nin + 1]]
  IN  Built(NewParams(h, nin + 1, rng))

(* [Neuron(nin) for _ in range(nout)] *)
RECURSIVE LayerInit(_, _, _, _)
LayerInit(h, nin, nout, rng) ==
  IF nout = 0 THEN [h |-> h, rng |-> rng, obj |-> <<>>]
  ELSE LET Rest(n) ==
             LET Cons(rest) ==
                   [h |-> rest.h, rng |-> rest.rng, obj |-> <<n.obj>> \o rest.obj]
             IN  Cons(LayerInit(n.h, nin, nout - 1, n.rng))
       IN  Rest(NeuronInit(h, nin, rng))

(* sz = [nin] + nouts; [Layer(sz[i], sz[i+1]) for i in range(len(nouts))] *)
RECURSIVE MLPLayers(_, _, _, _)
MLPLayers(h, sz, i, rng) ==
  IF i >= Len(sz) THEN [h |-> h, rng |-> rng, obj |-> <<>>]
  ELSE LET Rest(l) ==
             LET Cons(rest) ==
                   [h |-> rest.h, rng |-> rest.rng, obj |-> <<l.obj>> \o rest.obj]
             IN  Cons(MLPLayers(l.h, sz, i + 1, l.rng))
       IN  Rest(LayerInit(h, sz[i], sz[i + 1], rng))

MLPInit(nin, nouts, rng) == MLPLayers(<<>>, <<nin>> \o nouts, 1, rng)

(* sum((wi*xi for wi, xi in zip(self.w, x)), self.b): zip stops at the     *)
(* shorter of its arguments; the products are built one at a time, each    *)
(* added to the running total acc (acc + product) as it is produced.       *)
RECURSIVE NeuronSum(_, _, _, _, _)
NeuronSum(h, n, items, i, acc) ==
  IF i > Min(Len(n.w), Len(items)) THEN Res(h, acc, "")
  ELSE LET Rest(total) == NeuronSum(total.h, n, items, i + 1, total.out)
           Sum(product) == Rest(ValueAdd(product.h, acc, Node(product.out)))
       IN  Sum(ValueMul(h, n.w[i], items[i]))

(* Neuron.__call__.  zip raises TypeError for an argument that is not      *)
(* iterable, as a bare Value is.                                           *)
NeuronCall(h, n, x) ==
  IF ~ x.isList THEN NRes(h, Bare(0), "TypeError")
  ELSE LET Return(t) == NRes(t.h, Bare(t.out), t.err)
           Tanh(act) == Return(ValueTanh(act.h, act.out))
       IN  Tanh(NeuronSum(h, n, x.items, 1, n.b))

(* outs = [n(x) for n in self.neurons] *)
RECURSIVE LayerOuts(_, _, _, _, _)
LayerOuts(h, layer, x, j, outs) ==
  IF j > Len(layer) THEN [h |-> h, outs |-> outs, err |-> ""]
  ELSE LET Rest(r) ==
             IF r.err # "" THEN [h |-> r.h, outs |-> outs, err |-> r.err]
             ELSE LayerOuts(r.h, layer, x, j + 1, Append(outs, r.ret.id))
       IN  Rest(NeuronCall(h, layer[j], x))

(* Layer.__call__: return outs[0] if len(outs) == 1 else outs *)
LayerCall(h, layer, x) ==
  LET Return(r) ==
        IF r.err # "" THEN NRes(r.h, Bare(0), r.err)
        ELSE IF Len(r.outs) = 1 THEN NRes(r.h, Bare(r.outs[1]), "")
        ELSE NRes(r.h, List([j \in 1..Len(r.outs) |-> Node(r.outs[j])]), "")
  IN  Return(LayerOuts(h, layer, x, 1, <<>>))

(* MLP.__call__: for layer in self.layers: x = layer(x) *)
RECURSIVE MLPCallFrom(_, _, _, _)
MLPCallFrom(h, layers, l, x) ==
  IF l > Len(layers) THEN NRes(h, x, "")
  ELSE LET Rest(r) ==
             IF r.err # "" THEN r ELSE MLPCallFrom(r.h, layers, l + 1, r.ret)
       IN  Rest(LayerCall(h, layers[l], x))

MLPCall(h, layers, x) == MLPCallFrom(h, layers, 1, x)

(* [self.b] + self.w *)
NeuronParametersBiasFirst(n) == <<n.b>> \o n.w

(* Neuron.parameters: self.w + [self.b] *)
NeuronParameters(n) == n.w \o <<n.b>>

(* Layer.parameters: [p for neuron in self.neurons for p in neuron.parameters()] *)
RECURSIVE LayerParametersFrom(_, _)
LayerParametersFrom(layer, j) ==
  IF j > Len(layer) THEN <<>>
  ELSE NeuronParameters(layer[j]) \o LayerParametersFrom(layer, j + 1)

LayerParameters(layer) == LayerParametersFrom(layer, 1)

(* MLP.parameters: [p for layer in self.layers for p in layer.parameters()] *)
RECURSIVE MLPParametersFrom(_, _)
MLPParametersFrom(layers, l) ==
  IF l > Len(layers) THEN <<>>
  ELSE LayerParameters(layers[l]) \o MLPParametersFrom(layers, l + 1)

MLPParameters(layers) == MLPParametersFrom(layers, 1)

(* Module.zero_grad: for p in self.parameters(): p.grad = 0.0 *)
RECURSIVE ZeroGradFrom(_, _, _)
ZeroGradFrom(h, ps, i) ==
  IF i > Len(ps) THEN h
  ELSE ZeroGradFrom([h EXCEPT ![ps[i]].grad = Zero], ps, i + 1)

(* zero_grad resetting every node of the graph *)
ZeroGradAll(h, ps) == [i \in DOMAIN h |-> [h[i] EXCEPT !.grad = Zero]]

(* "for p in self.parameters(): p = 0.0": the loop rebinds p *)
ZeroGradRebind(h, ps) == h

ZeroGrad(h, ps) == ZeroGradFrom(h, ps, 1)

(***************************************************************************)
(* The state machine of the graph core.  heap holds every Value built so   *)
(* far; last describes the most recent call (its operands, the object it   *)
(* returned, the exception it raised, the boolean a comparison returned);  *)
(* order lists the nodes whose _backward the most recent call invoked, in  *)
(* invocation order (none unless the call was backward() on a node of the  *)
(* graph core, OpBackward).                                                *)
(***************************************************************************)
LeafData == {Int2Rat(0), Int2Rat(-2)}
RawData == {Int2Rat(2)}
ExpData == {Int2Rat(-1), Int2Rat(0), Int2Rat(2)}

Ids(h) == 1..Len(h)
NoOperand == Raw(Zero)
Operands(h) == {Node(i) : i \in Ids(h)} \cup {Raw(q) : q \in RawData}
Raws == {Raw(q) : q \in RawData}

NoIter == [phase |-> "idle", done |-> 0, held |-> {}]
NoComp == [kind |-> "", l |-> 0, j |-> 0]

LastRec(op, a, b, out, err, res) ==
  [op |-> op, a |-> a, b |-> b, out |-> out, err |-> err, res |-> res,
   comp |-> NoComp, x |-> List(<<>>), ret |-> List(<<>>)]

(* The record of a call on a component of the network. *)
LastNN(op, comp, x, ret, err) ==
  [op |-> op, a |-> NoOperand, b |-> NoOperand, out |-> 0, err |-> err,
   res |-> FALSE, comp |-> comp, x |-> x, ret |-> ret]

Reach(h, root) == LET t == Topo(h, root, {}) IN {t[i] : i \in DOMAIN t}

Init ==
  /\ heap = <<>>
  /\ last = LastRec("", NoOperand, NoOperand, 0, "", FALSE)
  /\ order = <<>>
  /\ nback = 0
  /\ net = <<>>
  /\ ncall = 0
  /\ iter = NoIter

(* An arithmetic call whose outcome is r. *)
Returns(op, a, b, r) ==
  /\ Len(heap) < MaxNodes
  /\ r.err # "OutOfModel"
  /\ Len(r.h) <= MaxNodes
  /\ heap' = r.h
  /\ last' = LastRec(op, a, b, r.out, r.err, FALSE)
  /\ order' = <<>>
  /\ UNCHANGED <<nback, net, ncall, iter>>

NewValue ==
  \E v \in LeafData :
    Returns("Value", Raw(v), NoOperand,
            Res(ValueInit(heap, v, <<>>, "", 0), Len(heap) + 1, ""))

OpAdd ==
  \E a \in Ids(heap), x \in Operands(heap) :
    Returns("add", Node(a), x, ValueAdd(heap, a, x))

(* other + self with other a plain number: __radd__ returns self + other *)
OpRAdd ==
  \E a \in Ids(heap), x \in Raws :
    Returns("radd", x, Node(a), ValueAdd(heap, a, x))

OpMul ==
  \E a \in Ids(heap), x \in Operands(heap) :
    Returns("mul", Node(a), x, ValueMul(heap, a, x))

(* other * self with other a plain number: __rmul__ returns self * other *)
OpRMul ==
  \E a \in Ids(heap), x \in Raws :
    Returns("rmul", x, Node(a), ValueMul(heap, a, x))

OpPow ==
  \E a \in Ids(heap), k \in ExpData :
    Returns("pow", Node(a), Raw(k), ValuePow(heap, a, Raw(k)))

(* self ** other with other a Value *)
OpPowValue ==
  \E a \in Ids(heap), b \in Ids(heap) :
    Returns("pow", Node(a), Node(b), ValuePow(heap, a, Node(b)))

OpExp == \E a \in Ids(heap) : Returns("exp", Node(a), NoOperand, ValueExp(heap, a))

OpTanh == \E a \in Ids(heap) : Returns("tanh", Node(a), NoOperand, ValueTanh(heap, a))

OpRelu == \E a \in Ids(heap) : Returns("relu", Node(a), NoOperand, ValueRelu(heap, a))

OpAbs == \E a \in Ids(heap) : Returns("abs", Node(a), NoOperand, ValueAbs(heap, a))

OpNeg == \E a \in Ids(heap) : Returns("neg", Node(a), NoOperand, ValueNeg(heap, a))

OpSub ==
  \E a \in Ids(heap), x \in Operands(heap) :
    Returns("sub", Node(a), x, ValueSub(heap, a, x))

OpRSub ==
  \E a \in Ids(heap), x \in Raws :
    Returns("rsub", x, Node(a), ValueRSub(heap, a, x))

OpTrueDiv ==
  \E a \in Ids(heap), x \in Operands(heap) :
    Returns("truediv", Node(a), x, ValueTrueDiv(heap, a, x))

OpRTrueDiv ==
  \E a \in Ids(heap), x \in Raws :
    Returns("rtruediv", x, Node(a), ValueRTrueDiv(heap, a, x))

(* A comparison returns a bool and builds no node that outlives it; last   *)
(* keeps the comparison made and the bool, not the operands.               *)
Compare(op, a, x, res) ==
  /\ Len(heap) < MaxNodes
  /\ last' = LastRec(op, NoOperand, NoOperand, 0, "", res)
  /\ order' = <<>>
  /\ UNCHANGED <<heap, nback, net, ncall, iter>>

OpCompare ==
  \E a \in Ids(heap), x \in Operands(heap) :
    \/ Compare("gt", a, x, ValueGt(heap, a, x))
    \/ Compare("ge", a, x, ValueGe(heap, a, x))
    \/ Compare("lt", a, x, ValueLt(heap, a, x))
    \/ Compare("le", a, x, ValueLe(heap, a, x))

(* backward() on any node of a graph of at most MaxNodes nodes. *)
OpBackward ==
  /\ nback < MaxBackward
  /\ Len(heap) <= MaxNodes
  /\ \E root \in Ids(heap) :
       \E flips \in SUBSET {n \in Reach(heap, root) : Cardinality(heap[n].prev) = 2} :
         \E r \in {ValueBackward(heap, root, flips)} :
           /\ heap' = r.h
           /\ order' = r.invoked
           /\ last' = LastRec("backward", Node(root), NoOperand, 0, r.err, FALSE)
           /\ nback' = nback + 1
           /\ UNCHANGED <<net, ncall, iter>>

Next == NewValue \/ OpAdd \/ OpMul \/ OpPow \/ OpBackward

Spec == Init /\ [][Next]_vars

(***************************************************************************)
(* The state machine of the network: an MLP is constructed, then called,   *)
(* reset and differentiated in any order.                                  *)
(*                                                                         *)
(* The parameters are built first, so they are heap[1..NumParams].         *)
(*                                                                         *)
(* iter observes the training iterations: a zero_grad() on the MLP         *)
(* ("reset"), then a call of the MLP ("forward"), then backward() on a     *)
(* node it returned, which completes an iteration (done counts them).      *)
(***************************************************************************)
RECURSIVE SeqsUpTo(_, _)
SeqsUpTo(S, n) ==
  IF n = 0 THEN {<<>>}
  ELSE SeqsUpTo(S, n - 1) \cup [1..n -> S]

(* The number of random.uniform calls the construction of an MLP makes. *)
RECURSIVE NumDraws(_, _)
NumDraws(sz, i) ==
  IF i >= Len(sz) THEN 0
  ELSE (sz[i] + 1) * sz[i + 1] + NumDraws(sz, i + 1)

(* The architectures MLP(nin, nouts) of the model. *)
Archs ==
  {arch \in {<<nin, nouts>> : nin \in 1..MaxIn,
                             nouts \in SeqsUpTo(1..MaxWidth, MaxLayers) \ {<<>>}} :
     NumDraws(<<arch[1]>> \o arch[2], 1) <= MaxDraws}

(* The numbers random.uniform(-1, 1) may return, sampled; 1 is not among   *)
(* them.                                                                   *)
WeightData == {Zero, <<1, 2>>}

InitNN ==
  \E arch \in Archs :
    \E rng \in [1..NumDraws(<<arch[1]>> \o arch[2], 1) -> WeightData] :
      \E m \in {MLPInit(arch[1], arch[2], rng)} :
        /\ heap = m.h
        /\ net = m.obj
        /\ last = LastRec("", NoOperand, NoOperand, 0, "", FALSE)
        /\ order = <<>>
        /\ nback = 0
        /\ ncall = 0
        /\ iter = NoIter

(* The components of the network: the MLP, its Layers, their Neurons. *)
TheMLP == [kind |-> "MLP", l |-> 0, j |-> 0]
Parts ==
  {[kind |-> "Layer", l |-> l, j |-> 0] : l \in 1..Len(net)}
    \cup UNION {{[kind |-> "Neuron", l |-> l, j |-> j] : j \in 1..Len(net[l])} :
                l \in 1..Len(net)}
Components == IF net = <<>> THEN {} ELSE {TheMLP} \cup Parts

CompCall(h, c, x) ==
  CASE c.kind = "MLP" -> MLPCall(h, net, x)
    [] c.kind = "Layer" -> LayerCall(h, net[c.l], x)
    [] c.kind = "Neuron" -> NeuronCall(h, net[c.l][c.j], x)

CompParameters(c) ==
  CASE c.kind = "MLP" -> MLPParameters(net)
    [] c.kind = "Layer" -> LayerParameters(net[c.l])
    [] c.kind = "Neuron" -> NeuronParameters(net[c.l][c.j])

NumParams == Len(MLPParameters(net))

(* The lists of plain numbers a caller passes: of every length up to one   *)
(* more than the widest input, and one whose entries overflow math.exp.    *)
InData == {Int2Rat(-1), Int2Rat(-64)}
BigInput == Int2Rat(800)
InputVecs ==
  {List([i \in 1..n |-> Raw(v)]) : n \in 0..(MaxIn + 1), v \in InData}
    \cup {List([i \in 1..MaxIn |-> Raw(BigInput)])}

(* The lists model(x) is called on: as many numbers as the network has     *)
(* inputs.                                                                 *)
ModelInputs ==
  {x \in InputVecs :
     /\ Len(x.items) = Len(net[1][1].w)
     /\ \A i \in DOMAIN x.items : x.items[i].num \in InData}

(* The nodes a result holds. *)
RetIds(ret) ==
  IF ret.isList THEN {ret.items[i].id : i \in DOMAIN ret.items} ELSE {ret.id}

CallOn(c, x) ==
  \E r \in {CompCall(heap, c, x)} :
    /\ r.err # "OutOfModel"
    /\ heap' = r.h
    /\ last' = LastNN("call", c, x, r.ret, r.err)
    /\ order' = <<>>
    /\ ncall' = ncall + 1
    /\ iter' = [phase |-> IF c = TheMLP /\ r.err = "" /\ iter.phase = "reset"
                          THEN "forward" ELSE "idle",
                done |-> iter.done,
                held |-> IF r.err = "" THEN RetIds(r.ret) ELSE iter.held]
    /\ UNCHANGED <<nback, net>>

(* model(x) *)
Call ==
  /\ ncall < MaxCalls
  /\ TheMLP \in Components
  /\ \E x \in ModelInputs : CallOn(TheMLP, x)

(* layer(x), neuron(x) *)
CallPart ==
  /\ ncall < MaxPartCalls
  /\ \E c \in Parts, x \in InputVecs : CallOn(c, x)

ZeroGradOn(c) ==
  /\ heap' = ZeroGrad(heap, CompParameters(c))
  /\ last' = LastNN("zero_grad", c, List(<<>>), List(<<>>), "")
  /\ order' = <<>>
  /\ iter' = [iter EXCEPT !.phase =
                IF c = TheMLP \/ iter.phase = "reset" THEN "reset" ELSE "idle"]
  /\ UNCHANGED <<nback, net, ncall>>

(* model.zero_grad() *)
ModelZeroGrad == TheMLP \in Components /\ ZeroGradOn(TheMLP)

(* zero_grad() on the MLP, a Layer or a Neuron *)
CallZeroGrad == \E c \in Components : ZeroGradOn(c)

(* The outcomes of backward(root): the heap it leaves and the exception it *)
(* raises, for every iteration order of the operand sets.                  *)
BackwardOutcomes(h, root) ==
  LET Outcome(r) == [h |-> r.h, err |-> r.err]
  IN  {Outcome(ValueBackward(h, root, flips)) :
         flips \in SUBSET {n \in Reach(h, root) : Cardinality(h[n].prev) = 2}}

(* backward() on a node of the result the caller holds, that of the last   *)
(* call that returned (iter.held).  It completes an iteration when that    *)
(* call is the forward call of the iteration.  The order of the closure calls is observed in the graph core *)
(* (OpBackward) and not here.                                              *)
CallBackwardNN ==
  /\ nback < MaxBackward
  /\ \E root \in iter.held :
       \E r \in BackwardOutcomes(heap, root) :
         /\ heap' = r.h
         /\ order' = <<>>
         /\ last' = LastRec("backward", Node(root), NoOperand, 0, r.err, FALSE)
         /\ nback' = nback + 1
         /\ iter' = IF iter.phase = "forward" /\ root \in RetIds(last.ret)
                    THEN [iter EXCEPT !.phase = "idle", !.done = iter.done + 1]
                    ELSE [iter EXCEPT !.phase = "idle"]
         /\ UNCHANGED <<net, ncall>>

NextNN == Call \/ ModelZeroGrad \/ CallBackwardNN

SpecNN == InitNN /\ [][NextNN]_vars

NextParts == CallPart \/ CallZeroGrad \/ CallBackwardNN

SpecParts == InitNN /\ [][NextParts]_vars

(* The operations value.py derives from add, multiply and power, its      *)
(* unary operations and its comparisons.                                   *)
NextOps ==
  \/ NewValue
  \/ OpRAdd
  \/ OpRMul
  \/ OpPowValue
  \/ OpExp
  \/ OpTanh
  \/ OpRelu
  \/ OpAbs
  \/ OpNeg
  \/ OpSub
  \/ OpRSub
  \/ OpTrueDiv
  \/ OpRTrueDiv
  \/ OpCompare

SpecOps == Init /\ [][NextOps]_vars

(* Every operation of value.py together with backward() and zero_grad(),  *)
(* on a graph built from scratch or from the parameters of a network; the  *)
(* operations act while the graph has fewer than MaxGraphNodes nodes.      *)
GraphRoom == Len(heap) < MaxGraphNodes

NextGraph ==
  \/ GraphRoom /\ NewValue
  \/ GraphRoom /\ OpAdd
  \/ GraphRoom /\ OpRAdd
  \/ GraphRoom /\ OpMul
  \/ GraphRoom /\ OpRMul
  \/ GraphRoom /\ OpPow
  \/ GraphRoom /\ OpPowValue
  \/ GraphRoom /\ OpExp
  \/ GraphRoom /\ OpTanh
  \/ GraphRoom /\ OpRelu
  \/ GraphRoom /\ OpAbs
  \/ GraphRoom /\ OpNeg
  \/ GraphRoom /\ OpSub
  \/ GraphRoom /\ OpRSub
  \/ GraphRoom /\ OpTrueDiv
  \/ GraphRoom /\ OpRTrueDiv
  \/ GraphRoom /\ OpCompare
  \/ OpBackward
  \/ CallZeroGrad

SpecGraph == (Init \/ InitNN) /\ [][NextGraph]_vars

(***************************************************************************)
(* Properties.  The derivative of a root with respect to a node is         *)
(* computed here top-down, as the sum over the operand paths from the root *)
(* to the node of the product of the local derivatives along the path;     *)
(* backward() computes it bottom-up along a topological order.             *)
(***************************************************************************)
RECURSIVE Descendants(_, _)
Descendants(h, root) ==
  {root} \cup UNION {Descendants(h, c) : c \in h[root].prev}

(* d out / d (the i-th operand of out) *)
LocalDeriv(h, out, i) ==
  CASE h[out].op = "+" -> One
    [] h[out].op = "*" -> h[h[out].args[3 - i]].data
    [] h[out].op = "**" ->
         IF h[out].k = 0 THEN Zero
         ELSE RMul(Int2Rat(h[out].k), RPow(h[h[out].args[1]].data, h[out].k - 1))
    [] h[out].op = "exp" -> h[out].data
    [] h[out].op = "tanh" -> RSub(One, RMul(h[out].data, h[out].data))
    [] h[out].op = "ReLU" -> IF RLt(Zero, h[out].data) THEN One ELSE Zero
    [] OTHER -> Zero

RECURSIVE PathSum(_, _, _)
RECURSIVE PathSumArgs(_, _, _, _)
PathSum(h, root, n) ==
  IF root = n THEN One ELSE PathSumArgs(h, root, n, 1)

PathSumArgs(h, out, n, i) ==
  IF i > Len(h[out].args) THEN Zero
  ELSE RAdd(RMul(LocalDeriv(h, out, i), PathSum(h, h[out].args[i], n)),
            PathSumArgs(h, out, n, i + 1))

ArithOps == {"", "+", "*", "**"}

ArithDag(h, root) == \A n \in Descendants(h, root) : h[n].op \in ArithOps

Leaves(h, root) == {n \in Descendants(h, root) : h[n].prev = {}}

(* The step is a backward() call that returned. *)
BackwardReturned == last'.op = "backward" /\ nback' = nback + 1 /\ last'.err = ""

GradsArePathSums(h, hAfter, root) ==
  \A n \in Descendants(h, root) : hAfter[n].grad = PathSum(h, root, n)

(* C1, as stated: in a graph built with add, multiply and power whose      *)
(* leaves all have gradient 0, after backward(root) returns every node     *)
(* reachable from root holds the sum over the operand paths from root of   *)
(* the products of the local derivatives (root holds 1).                   *)
C1_LeavesZeroSuffices ==
  [][(/\ BackwardReturned
      /\ ArithDag(heap, last'.a.id)
      /\ \A n \in Leaves(heap, last'.a.id) : heap[n].grad = Zero)
     => GradsArePathSums(heap, heap', last'.a.id)]_vars

(* C1, amended: the same, when every node reachable from root other than   *)
(* root itself (the intermediate nodes too, not only the leaves) has       *)
(* gradient 0 before the call.                                             *)
C1_BackwardPathSums ==
  [][(/\ BackwardReturned
      /\ ArithDag(heap, last'.a.id)
      /\ \A n \in Descendants(heap, last'.a.id) \ {last'.a.id} : heap[n].grad = Zero)
     => GradsArePathSums(heap, heap', last'.a.id)]_vars

(* backward() has returned on a root one of whose operands is also an      *)
(* operand of another operand of the root (root = c op n with c built from *)
(* n): n holds the sum over both paths, which is not 0.                    *)
C1_Witness ==
  /\ last.op = "backward"
  /\ last.err = ""
  /\ nback = 1
  /\ ArithDag(heap, last.a.id)
  /\ LET root == last.a.id
     IN  \E n, c \in heap[root].prev :
           /\ c # n
           /\ n \in heap[c].prev
           /\ heap[n].grad # Zero
           /\ heap[n].grad # PathSum(heap, c, n)
           /\ GradsArePathSums(heap, heap, root)

(* C2, as stated: backward(root) invokes the closure of every node         *)
(* reachable from root exactly once, a node's closure only after the       *)
(* closures of all the reachable nodes that have it as an operand, and     *)
(* never the closure of a node that is not reachable from root.            *)
C2_EachOnceConsumersFirst ==
  last.op = "backward" =>
    LET R == Descendants(heap, last.a.id)
    IN  /\ \A i, j \in DOMAIN order : order[i] = order[j] => i = j
        /\ {order[i] : i \in DOMAIN order} = R
        /\ \A i \in DOMAIN order :
             \A c \in R :
               order[i] \in heap[c].prev => \E j \in 1..(i - 1) : order[j] = c

(* C3, as stated: a Neuron called on a list whose length is not its input *)
(* width fails with DimensionMismatch and returns no node.                 *)
C3_WrongLengthFails ==
  (/\ last.op = "call"
   /\ last.comp.kind = "Neuron"
   /\ Len(last.x.items) # Len(net[last.comp.l][last.comp.j].w))
  => (last.err = "DimensionMismatch" /\ last.ret = Bare(0))

(* C4, as stated: a call of the MLP on a list of input-width numbers       *)
(* (here: numbers far from the range limit of math.exp) completes, and     *)
(* returns a bare node when the last layer has one neuron and a list of    *)
(* as many nodes as the last layer has neurons otherwise.                  *)
C4_ForwardCompletes ==
  (/\ last.op = "call"
   /\ last.comp = TheMLP
   /\ Len(last.x.items) = Len(net[1][1].w)
   /\ \A i \in DOMAIN last.x.items : last.x.items[i].num \in InData)
  => /\ last.err = ""
     /\ IF Len(net[Len(net)]) = 1
        THEN ~ last.ret.isList /\ last.ret.id \in Ids(heap)
        ELSE last.ret.isList /\ Len(last.ret.items) = Len(net[Len(net)])

(* C5, as stated: a - b returns a node whose value is the value of a minus *)
(* the value of b, whichever of the two is the plain number.               *)
C5_SubtractValue ==
  (last.op \in {"sub", "rsub"} /\ last.err = "")
  => /\ last.out \in Ids(heap)
     /\ heap[last.out].data =
          RSub(OperandData(heap, last.a), OperandData(heap, last.b))

(* C6, as stated: a / b with b a node whose value is 0, a being a node or  *)
(* a plain number, raises nothing and returns a node.                      *)
C6_DivideByZeroNodeReturns ==
  (/\ last.op \in {"truediv", "rtruediv"}
   /\ last.b.isValue
   /\ heap[last.b.id].data = Zero)
  => (last.err = "" /\ last.out \in Ids(heap))

(* The parameters a component owns, read off the structure of the network. *)
OwnNeurons(c) ==
  {lj \in UNION {{<<l, j>> : j \in 1..Len(net[l])} : l \in 1..Len(net)} :
     /\ c.kind # "MLP" => lj[1] = c.l
     /\ c.kind = "Neuron" => lj[2] = c.j}

OwnParams(c) ==
  UNION {{net[lj[1]][lj[2]].w[i] : i \in DOMAIN net[lj[1]][lj[2]].w}
           \cup {net[lj[1]][lj[2]].b} : lj \in OwnNeurons(c)}

(* C7: zero_grad() on a Neuron, a Layer or the MLP sets the gradient of    *)
(* each of the component's parameters to 0 and leaves the gradient of      *)
(* every other node, and the value of every node, as it was.               *)
C7_ZeroGradFrame ==
  [][last'.op = "zero_grad"
     => LET own == OwnParams(last'.comp)
        IN  /\ Len(heap') = Len(heap)
            /\ \A n \in Ids(heap) :
                 /\ heap'[n].data = heap[n].data
                 /\ heap'[n].grad = IF n \in own THEN Zero ELSE heap[n].grad]_vars

(* zero_grad() has been called on one Neuron after a backward(): its       *)
(* parameters are at 0 while a parameter of another neuron and an          *)
(* intermediate node still hold a gradient.                                *)
C7_Witness ==
  /\ last.op = "zero_grad"
  /\ last.comp.kind = "Neuron"
  /\ nback >= 1
  /\ \A p \in OwnParams(last.comp) : heap[p].grad = Zero
  /\ \E p \in OwnParams(TheMLP) \ OwnParams(last.comp) : heap[p].grad # Zero
  /\ \E n \in Ids(heap) \ OwnParams(TheMLP) : heap[n].grad # Zero

LayerIn(l) == Len(net[l][1].w)

(* The number of parameters of the layers before layer l. *)
RECURSIVE ParamsBefore(_)
ParamsBefore(l) ==
  IF l = 1 THEN 0
  ELSE ParamsBefore(l - 1) + (LayerIn(l - 1) + 1) * Len(net[l - 1])

ParametersInOrder ==
  LET ps == MLPParameters(net)
  IN  /\ Len(ps) = ParamsBefore(Len(net) + 1)
      /\ \A p, q \in DOMAIN ps : ps[p] = ps[q] => p = q
      /\ {ps[p] : p \in DOMAIN ps} = OwnParams(TheMLP)
      /\ \A l \in 1..Len(net) :
           \A j \in 1..Len(net[l]) :
             LET base == ParamsBefore(l) + (j - 1) * (LayerIn(l) + 1)
             IN  /\ \A i \in 1..LayerIn(l) : ps[base + i] = net[l][j].w[i]
                 /\ ps[base + LayerIn(l) + 1] = net[l][j].b

(* C8: MLP.parameters() lists every weight and bias once, by layer, then   *)
(* by neuron, a neuron's weights in input order and then its bias; its     *)
(* length is the sum over the layers of (input width + 1) * neurons; and   *)
(* no operation changes the list it returns.                               *)
C8_ParametersOrder ==
  /\ [](net # <<>> => ParametersInOrder)
  /\ [][net # <<>> => MLPParameters(net') = MLPParameters(net)]_vars

(* A network of a layer of two neurons with one weight each and a layer of  *)
(* one neuron with two weights, after a call, a backward() and a           *)
(* zero_grad().                                                            *)
C8_Witness ==
  /\ Len(net) = 2
  /\ Len(net[1]) = 2
  /\ Len(net[2]) = 1
  /\ LayerIn(2) = 2
  /\ Len(MLPParameters(net)) = 7
  /\ ncall >= 1
  /\ nback >= 1
  /\ last.op = "zero_grad"

(* C9: when zero_grad() on the MLP, a call of the MLP and backward() on a  *)
(* node that call returned follow each other, each parameter then holds    *)
(* the derivative of that node in the graph of that call, whatever the     *)
(* gradients were before the zero_grad().                                  *)
C9_IterationGradients ==
  [][(/\ last'.op = "backward"
      /\ nback' = nback + 1
      /\ last'.err = ""
      /\ iter.phase = "forward"
      /\ last'.a.id \in RetIds(last.ret))
     => \A p \in OwnParams(TheMLP) :
          heap'[p].grad = PathSum(heap, last'.a.id, p)]_vars

(* Two iterations have been completed; the parameters hold gradients. *)
C9_Witness ==
  /\ iter.done = 2
  /\ last.op = "backward"
  /\ last.err = ""
  /\ \E p \in OwnParams(TheMLP) : heap[p].grad # Zero
  /\ \A p \in OwnParams(TheMLP) : heap[p].grad = PathSum(heap, last.a.id, p)

(* C10: no step changes the value or the operands of an existing node;     *)
(* backward(root) changes the gradient of no node that is not reachable    *)
(* from root, and on a root without operands sets root.grad to 1 and       *)
(* changes nothing else; a construction, an arithmetic operation or a      *)
(* comparison changes no gradient.                                         *)
C10_OnlyGradientsChange ==
  [][/\ Len(heap') >= Len(heap)
     /\ \A n \in Ids(heap) :
          /\ heap'[n].data = heap[n].data
          /\ heap'[n].prev = heap[n].prev
          /\ heap'[n].args = heap[n].args
     /\ last'.op = "backward"
        => /\ Len(heap') = Len(heap)
           /\ \A n \in Ids(heap) \ Descendants(heap, last'.a.id) :
                heap'[n].grad = heap[n].grad
           /\ heap[last'.a.id].prev = {}
              => /\ heap'[last'.a.id].grad = One
                 /\ \A n \in Ids(heap) \ {last'.a.id} : heap'[n].grad = heap[n].grad
     /\ last'.op \notin {"backward", "zero_grad"}
        => \A n \in Ids(heap) : heap'[n].grad = heap[n].grad]_vars

(* backward() has been called on a node without operands while a node     *)
(* built by an operation and another node hold gradients of an earlier     *)
(* backward().                                                             *)
C10_Witness ==
  /\ last.op = "backward"
  /\ nback = 2
  /\ heap[last.a.id].prev = {}
  /\ heap[last.a.id].grad = One
  /\ \E n \in Ids(heap) : heap[n].op # "" /\ heap[n].grad # Zero
  /\ \E n \in Ids(heap) \ {last.a.id} : heap[n].prev = {} /\ heap[n].grad \notin {Zero, One}

====
